---------------------------- MODULE Spec2Model ----------------------------
(***************************************************************************)
(* A model of approx.c: sine, cosine, arctangent, exponential and          *)
(* logarithm by range reduction and minimax approximation.                 *)
(*                                                                         *)
(* Representation of the C types.                                          *)
(*                                                                         *)
(*  double, as a number: a signed fixed-point grid with step 1/One.  The   *)
(*    finite doubles are -MaxFin..MaxFin, +Infinity is PosInf, -Infinity   *)
(*    is -PosInf and NaN is NaNRep.  Every arithmetic operation rounds to  *)
(*    the nearest grid point and overflows to an infinity, as IEEE-754     *)
(*    arithmetic does; every comparison with NaN is false.  The grid has   *)
(*    one zero: -0.0 compares equal to 0.0 in every condition of the code. *)
(*                                                                         *)
(*  double, as bits (the union doi of Exp2 and Log2): a binary64 pattern   *)
(*    with 1 sign bit, 11 exponent bits (bias 1023) and a mantissa of      *)
(*    MantBits bits instead of 52, held as a natural number < Word.        *)
(*                                                                         *)
(*  int: two's complement of IntBits bits.  A conversion of a double that  *)
(*    does not fit, and an overflowing decrement, are undefined behaviour  *)
(*    and modelled as a choice among the outcomes builds produce.          *)
(***************************************************************************)
EXTENDS Integers, Sequences, FiniteSets, TLC

\* ------------------------------------------------------------------ bounds
\* Width of the mantissa field of a bit pattern (52 in binary64).
MantBits == 3
\* Width of the native int (32 on the usual targets).
IntBits == 12
\* Largest finite double on the grid, in grid steps.
MaxFin == 2097152
\* Number of iterations of the partition search that are observed.
MaxIters == 5
\* Half-width, in grid steps, of the sweeps of arguments.
Sweep == 3100

\* ------------------------------------------------------------ the doubles
\* The double 1.0 in grid steps.
One == 256

PosInf == MaxFin + 1
NaNRep == MaxFin + 2

IsNaN(a) == a = NaNRep
IsInf(a) == a = PosInf \/ a = -PosInf
IsFinite(a) == ~IsNaN(a) /\ ~IsInf(a)

Abs(n) == IF n < 0 THEN -n ELSE n

RECURSIVE Pow2(_)
Pow2(k) == IF k <= 0 THEN 1 ELSE 2 * Pow2(k - 1)

\* n / d rounded to the nearest integer, halves away from zero.
RoundDiv(n, d) ==
    LET an == Abs(n)
        ad == Abs(d)
        q == an \div ad
        r == an % ad
        qq == IF 2 * r >= ad THEN q + 1 ELSE q
    IN IF (n < 0) = (d < 0) THEN qq ELSE -qq

\* A real result brought back to the doubles: overflow gives an infinity.
Clamp(v) == IF v > MaxFin THEN PosInf ELSE IF v < -MaxFin THEN -PosInf ELSE v

\* The C comparisons <, <=, >, >= on doubles.
Lt(a, b) == ~IsNaN(a) /\ ~IsNaN(b) /\ a < b
Le(a, b) == ~IsNaN(a) /\ ~IsNaN(b) /\ a <= b
Gt(a, b) == ~IsNaN(a) /\ ~IsNaN(b) /\ a > b
Ge(a, b) == ~IsNaN(a) /\ ~IsNaN(b) /\ a >= b

\* Unary minus.
Neg(a) == IF IsNaN(a) THEN a ELSE -a

\* a + b
Add(a, b) ==
    IF IsNaN(a) \/ IsNaN(b) THEN NaNRep
    ELSE IF IsInf(a) THEN (IF IsInf(b) /\ b # a THEN NaNRep ELSE a)
    ELSE IF IsInf(b) THEN b
    ELSE Clamp(a + b)

\* a - b
Sub(a, b) == Add(a, Neg(b))

\* a * b  (the product is formed in two parts, a = hi * One + lo, so that
\* no intermediate value exceeds 32 bits)
Mul(a, b) ==
    IF IsNaN(a) \/ IsNaN(b) THEN NaNRep
    ELSE IF IsInf(a) \/ IsInf(b)
         THEN (IF a = 0 \/ b = 0 THEN NaNRep
               ELSE IF (a < 0) = (b < 0) THEN PosInf ELSE -PosInf)
    ELSE LET hi == Abs(a) \div One
             lo == Abs(a) % One
             mag == IF b # 0 /\ hi > (MaxFin \div Abs(b)) + 1
                    THEN PosInf
                    ELSE Clamp(hi * Abs(b) + RoundDiv(lo * Abs(b), One))
         IN IF (a < 0) = (b < 0) THEN mag ELSE -mag

\* a / b
Div(a, b) ==
    IF IsNaN(a) \/ IsNaN(b) THEN NaNRep
    ELSE IF IsInf(a)
         THEN (IF IsInf(b) THEN NaNRep
               ELSE IF (a < 0) = (b < 0) THEN PosInf ELSE -PosInf)
    ELSE IF IsInf(b) THEN 0
    ELSE IF b = 0
         THEN (IF a = 0 THEN NaNRep ELSE IF a > 0 THEN PosInf ELSE -PosInf)
    ELSE Clamp(RoundDiv(a * One, b))

\* ---------------------------------------------------------------- the int
IntMin == -Pow2(IntBits - 1)
IntMax == Pow2(IntBits - 1) - 1

\* The mathematical truncation toward zero of a finite double.
Trunc(x) == IF x >= 0 THEN x \div One ELSE -((-x) \div One)

\* (int) x.  The conversion is undefined when the truncated value does not
\* fit the int (NaN and the infinities included): builds yield INT_MIN
\* (x86), a saturated value or zero (ARM).
CastInt(x) ==
    IF IsFinite(x) /\ Trunc(x) >= IntMin /\ Trunc(x) <= IntMax
    THEN {Trunc(x)}
    ELSE {IntMin, 0, IntMax}

\* n - 1 in int arithmetic.  Overflow is undefined: builds either wrap or
\* carry the value on in a wider register.
Decrement(n) == IF n > IntMin THEN {n - 1} ELSE {IntMax, IntMin - 1}

\* (double) n
IToD(n) == Clamp(n * One)

\* ------------------------------------------------------- global constants
PI == 804            \* 3.14159265358979...
DIV_2_PI == Div(One, Mul(2 * One, PI))
INF == Div(One, 0)
DOUBLE_NAN == Div(0, 0)
SQRT2 == 362         \* 1.41421356237309...
LOG2E == 369         \* 1.44269504088896...
LOGE2 == 177         \* 0.69314718055994...

\* ------------------------------------------------------------------ Floord
\* The values Floord(x) can return (one value unless the conversion or the
\* decrement is undefined).
Floord(x) ==
    IF Ge(x, 0)
    THEN {IToD(n) : n \in CastInt(x)}
    ELSE UNION {{IToD(d) : d \in Decrement(n)} : n \in CastInt(x)}

\* ---------------------------------------------------------------- Math_Sin
\* The loop   for (i = k; i >= 0; i--) { P *= y; P += A[i]; }
\* with the 0-based A[i] of the code at position i + 1 of the sequence.
RECURSIVE Horner(_, _, _, _)
Horner(A, i, P, y) ==
    IF i < 0 THEN P ELSE Horner(A, i - 1, Add(Mul(P, y), A[i + 1]), y)

\* .52359877559829885532, -.2392459620393377657e-1, .32795319441392666e-3,
\* -.214071970654441e-5, .815113605169e-8, -.2020852964e-10
SinA == <<134, -6, 0, 0, 0, 0>>

SinStage1(x) ==
    LET x_2 == Mul(x, x)
        P == Horner(SinA, 4, SinA[6], x_2)
    IN Mul(P, x)

SinStage2(x) ==
    LET sin_6 == SinStage1(Mul(x, 4 * One))
    IN Mul(sin_6, Sub(3 * One, Mul(Mul(4 * One, sin_6), sin_6)))

\* SinStage3 with the last quarter folded as x - 0.75 instead of 1.0 - x.
SinStage3_shifted(x) ==
    IF Lt(x, One \div 4)
    THEN [ret |-> SinStage2(x), calls |-> <<x>>]
    ELSE IF Lt(x, One \div 2)
    THEN [ret |-> SinStage2(Sub(One \div 2, x)), calls |-> <<Sub(One \div 2, x)>>]
    ELSE IF Lt(x, (3 * One) \div 4)
    THEN [ret |-> Neg(SinStage2(Sub(x, One \div 2))), calls |-> <<Sub(x, One \div 2)>>]
    ELSE [ret |-> Neg(SinStage2(Sub(x, (3 * One) \div 4))),
          calls |-> <<Sub(x, (3 * One) \div 4)>>]

\* SinStage3 returns its value in ret and, in calls, the arguments of the
\* calls of SinStage2 it made, in order.
SinStage3(x) ==
    IF Lt(x, One \div 4)
    THEN [ret |-> SinStage2(x), calls |-> <<x>>]
    ELSE IF Lt(x, One \div 2)
    THEN [ret |-> SinStage2(Sub(One \div 2, x)), calls |-> <<Sub(One \div 2, x)>>]
    ELSE IF Lt(x, (3 * One) \div 4)
    THEN [ret |-> Neg(SinStage2(Sub(x, One \div 2))), calls |-> <<Sub(x, One \div 2)>>]
    ELSE [ret |-> Neg(SinStage2(Sub(One, x))), calls |-> <<Sub(One, x)>>]

\* -------------------------------------------------------------- Math_Atan2
\* .99999999999969557, -.3333333333318, .1999999997276, -.14285702288,
\* .11108719478, -.8870580341e-1
AtanA == <<256, -85, 51, -37, 28, -23>>

AtanStage1(x) ==
    LET x_2 == Mul(x, x)
        P == Horner(AtanA, 4, AtanA[6], x_2)
    IN Mul(P, x)

\* The tables of AtanStage2, indexed from 0 as in the code.
\* 0.0, 0.09849140335716425, 0.3033466836073424, 0.5345111359507916,
\* 0.8206787908286602, 1.2185035255879764, 1.8708684117893888,
\* 3.296558208938321, INF
X_i == [i \in 0..8 |-> <<0, 25, 78, 137, 210, 312, 479, 844, INF>>[i + 1]]

\* 0, 0, 5.027339492125848, 2.414213562373095, 1.4966057626654892,
\* 1.0000000000000002, 0.668178637919299, 0.4142135623730951,
\* 0.1989123673796581
div_x_i == [i \in 0..8 |-> <<0, 0, 1287, 618, 383, 256, 171, 106, 51>>[i + 1]]

\* 0, 0, 26.27414236908818, 6.82842712474619, 3.2398288088435505,
\* 2.0000000000000004, 1.4464626921716897, 1.17157287525381,
\* 1.0395661298965801
div_x_i_2_plus_1 ==
    [i \in 0..8 |-> <<0, 0, 6726, 1748, 829, 512, 370, 300, 266>>[i + 1]]

\* The condition of   while (R - L > 1)
AtanStage2_cond(L, R) == R - L > 1

\* The search step with the comparisons made strict the wrong way round:
\* a breakpoint equal to x becomes the upper bound.
AtanStage2_step_strict(L, R, x) ==
    LET m == (L + R) \div 2
    IN IF Lt(X_i[m], x) THEN <<m, R>>
       ELSE IF Ge(X_i[m], x) THEN <<L, m>>
       ELSE <<L, R>>

\* One iteration of the search loop: the new <<L, R>>.
AtanStage2_step(L, R, x) ==
    LET m == (L + R) \div 2
    IN IF Le(X_i[m], x) THEN <<m, R>>
       ELSE IF Gt(X_i[m], x) THEN <<L, m>>
       ELSE <<L, R>>

\* t = div_x_i[R] - div_x_i_2_plus_1[R] / (div_x_i[R] + x)
AtanStage2_t(R, x) ==
    Sub(div_x_i[R], Div(div_x_i_2_plus_1[R], Add(div_x_i[R], x)))

\* (2 * R - 2) * PI / 32.0
AtanStage2_base(R) == Div(Mul(IToD(2 * R - 2), PI), 32 * One)

\* The code of AtanStage2 after the loop: the argument handed to the core
\* evaluator AtanStage1 (core), the residual (t, when it is computed) and
\* the value returned.
AtanStage2_tail(R, x) ==
    IF R <= 1
    THEN [core |-> x, reduced |-> FALSE, t |-> 0, ret |-> AtanStage1(x)]
    ELSE LET t == AtanStage2_t(R, x)
         IN IF Ge(t, 0)
            THEN [core |-> t, reduced |-> TRUE, t |-> t,
                  ret |-> Add(AtanStage2_base(R), AtanStage1(t))]
            ELSE [core |-> Neg(t), reduced |-> TRUE, t |-> t,
                  ret |-> Sub(AtanStage2_base(R), AtanStage1(Neg(t)))]

\* Atan: whether x goes to AtanStage2 negated (and the result is negated).
Atan_neg(x) == ~Ge(x, 0)

\* The dispatch with y > 0 where the code has y >= 0.
Math_Atan2_branch_strict(y, x) ==
    IF Gt(x, 0) THEN "atan"
    ELSE IF Lt(x, 0) THEN (IF Gt(y, 0) THEN "atan+PI" ELSE "atan-PI")
    ELSE IF Gt(y, 0) THEN "+PI/2"
    ELSE IF Lt(y, 0) THEN "-PI/2"
    ELSE "NaN"

\* Math_Atan2: the branch taken for (y, x).
Math_Atan2_branch(y, x) ==
    IF Gt(x, 0) THEN "atan"
    ELSE IF Lt(x, 0) THEN (IF Ge(y, 0) THEN "atan+PI" ELSE "atan-PI")
    ELSE IF Gt(y, 0) THEN "+PI/2"
    ELSE IF Lt(y, 0) THEN "-PI/2"
    ELSE "NaN"

\* ------------------------------------------------------- the bit patterns
\* A pattern is sign * 2^(11 + MantBits) + exponent * 2^MantBits + mantissa.
Word == Pow2(12 + MantBits)
Patterns == 0..(Word - 1)

SignOf(p) == p \div Pow2(11 + MantBits)
ExpOf(p) == (p \div Pow2(MantBits)) % 2048
MantOf(p) == p % Pow2(MantBits)
MakeBits(s, e, m) == s * Pow2(11 + MantBits) + e * Pow2(MantBits) + m

IsNaNBits(p) == ExpOf(p) = 2047 /\ MantOf(p) # 0
IsZeroBits(p) == ExpOf(p) = 0 /\ MantOf(p) = 0
NaNBits == MakeBits(0, 2047, Pow2(MantBits - 1))
InfBits == MakeBits(0, 2047, 0)

\* v << 52 and v >> 52 on a cc_uint64: the shift distance is the width of
\* the mantissa field.
Shl52(v) == (v * Pow2(MantBits)) % Word
Shr52(p) == p \div Pow2(MantBits)

\* a & b, a | b and ~a on the low k bits.
RECURSIVE BitAnd(_, _, _)
BitAnd(a, b, k) ==
    IF k = 0 THEN 0
    ELSE 2 * BitAnd(a \div 2, b \div 2, k - 1)
         + (IF a % 2 = 1 /\ b % 2 = 1 THEN 1 ELSE 0)

RECURSIVE BitOr(_, _, _)
BitOr(a, b, k) ==
    IF k = 0 THEN 0
    ELSE 2 * BitOr(a \div 2, b \div 2, k - 1)
         + (IF a % 2 = 1 \/ b % 2 = 1 THEN 1 ELSE 0)

BitNot(a) == Word - 1 - a

RECURSIVE FloorLog2(_)
FloorLog2(c) == IF c < 2 THEN 0 ELSE 1 + FloorLog2(c \div 2)

\* The number a pattern stands for, on the grid (reading doi.d after doi.i
\* was written).  Subnormals round to zero on the grid.
GridOfBits(p) ==
    LET e == ExpOf(p) - 1023 - MantBits + FloorLog2(One)
        c == Pow2(MantBits) + MantOf(p)
        mag == IF ExpOf(p) = 0 \/ e < -31 THEN 0
               ELSE IF ExpOf(p) - 1023 > FloorLog2(MaxFin) THEN PosInf
               ELSE IF e >= 0 THEN Clamp(c * Pow2(e))
               ELSE RoundDiv(c, Pow2(-e))
    IN IF ExpOf(p) = 2047
       THEN (IF MantOf(p) # 0 THEN NaNRep
             ELSE IF SignOf(p) = 1 THEN -PosInf ELSE PosInf)
       ELSE IF SignOf(p) = 1 THEN -mag ELSE mag

\* doi.d * g for a pattern doi.d and a number g on the grid, as a pattern.
\* The mantissa is truncated to MantBits bits; subnormals are flushed to 0.
MulBits(p, g) ==
    LET s == (SignOf(p) + (IF Lt(g, 0) THEN 1 ELSE 0)) % 2
        c == (Pow2(MantBits) + MantOf(p)) * Abs(g)
        k == FloorLog2(c)
        e == ExpOf(p) + k - MantBits - FloorLog2(One)
        m == IF k >= MantBits THEN (c \div Pow2(k - MantBits)) - Pow2(MantBits)
             ELSE c * Pow2(MantBits - k) - Pow2(MantBits)
    IN IF IsNaN(g) \/ IsNaNBits(p) THEN NaNBits
       ELSE IF ExpOf(p) = 2047
            THEN (IF g = 0 THEN NaNBits ELSE MakeBits(s, 2047, 0))
       ELSE IF IsInf(g)
            THEN (IF IsZeroBits(p) THEN NaNBits ELSE MakeBits(s, 2047, 0))
       ELSE IF g = 0 \/ ExpOf(p) = 0 THEN MakeBits(s, 0, 0)
       ELSE IF e >= 2047 THEN MakeBits(s, 2047, 0)
       ELSE IF e <= 0 THEN MakeBits(s, 0, 0)
       ELSE MakeBits(s, e, m)

\* ---------------------------------------------------------------- Math_Exp
\* .1513906799054338915894328e4, .20202065651286927227886e2,
\* .23093347753750233624e-1
Exp2A_P == <<387560, 5172, 6>>
\* .4368211662727558498496814e4, .233184211427481623790295e3, 1.0
Exp2A_Q == <<1118262, 59695, 256>>

Exp2Stage1(x) ==
    LET x_2 == Mul(x, x)
        P == Mul(Horner(Exp2A_P, 1, Exp2A_P[3], x_2), x)
        Q == Horner(Exp2A_Q, 1, Exp2A_Q[3], x_2)
    IN Div(Add(Q, P), Sub(Q, P))

\* The values of x_int after   int x_int = (int) x; if (x < 0) x_int--;
Exp2_int(x) ==
    IF Lt(x, 0)
    THEN UNION {Decrement(n) : n \in CastInt(x)}
    ELSE CastInt(x)

\* The branch Exp2 takes for x_int.
Exp2_edge(x_int) ==
    IF x_int < -1022 THEN "zero"
    ELSE IF x_int > 1023 THEN "inf"
    ELSE "none"

\* The pattern built with the exponent bias off by one.
Exp2_bits_bias1022(x_int) == Shl52((x_int + 1022) % Word)

\* doi.i = x_int + 1023; doi.i <<= 52;
Exp2_bits(x_int) == Shl52((x_int + 1023) % Word)

\* x - (double) x_int - 0.5
Exp2_residual(x, x_int) == Sub(Sub(x, IToD(x_int)), One \div 2)

\* Exp2(x) with x_int given: the locals and the pattern returned.
Exp2(x, x_int) ==
    IF Exp2_edge(x_int) = "zero"
    THEN [x |-> x, x_int |-> x_int, edge |-> "zero", ret |-> 0]
    ELSE IF Exp2_edge(x_int) = "inf"
    THEN [x |-> x, x_int |-> x_int, edge |-> "inf",
          ret |-> InfBits]
    ELSE [x |-> x, x_int |-> x_int, edge |-> "none",
          doi |-> Exp2_bits(x_int),
          residual |-> Exp2_residual(x, x_int),
          ret |-> MulBits(MulBits(Exp2_bits(x_int), SQRT2),
                          Exp2Stage1(Exp2_residual(x, x_int)))]

\* ---------------------------------------------------------------- Math_Log
\* -.205466671951e1, -.88626599391e1, .610585199015e1, .481147460989e1
Log2A_P == <<-526, -2269, 1563, 1232>>
\* .353553425277, .454517087629e1, .642784209029e1, 1.0
Log2A_Q == <<91, 1164, 1646, 256>>

Log2Stage1(x) ==
    LET P == Horner(Log2A_P, 2, Log2A_P[4], x)
        Q == Horner(Log2A_Q, 2, Log2A_Q[4], x)
    IN Div(P, Q)

\* x <= 0.0 for the double whose pattern is p.
Log2_nonpos(p) == ~IsNaNBits(p) /\ (SignOf(p) = 1 \/ IsZeroBits(p))

\* integer_part = (doi.i >> 52); integer_part -= 1023;
\* (doi.i >> 52 is below 4096 and fits every int.)
Log2_integer_part(p) == Shr52(p) - 1023

\* doi.i |= (((cc_uint64) 1023) << 52);
\* doi.i &= ~(((cc_uint64) 1024) << 52);
Log2_rewrite(p) ==
    BitAnd(BitOr(p, Shl52(1023), 12 + MantBits),
           BitNot(Shl52(1024)), 12 + MantBits)

\* Log2 of the double whose pattern is p: the locals and the value returned.
Log2(p) ==
    IF Log2_nonpos(p)
    THEN [nonpos |-> TRUE, ret |-> DOUBLE_NAN]
    ELSE [nonpos |-> FALSE,
          integer_part |-> Log2_integer_part(p),
          doi |-> Log2_rewrite(p),
          core |-> GridOfBits(Log2_rewrite(p)),
          ret |-> Add(IToD(Log2_integer_part(p)),
                      Log2Stage1(GridOfBits(Log2_rewrite(p))))]

\* ------------------------------------------------------------------- state
VARIABLES
    pc,      \* "idle", "AtanStage2_loop" (inside the search loop) or "done"
    fn,      \* the function called
    args,    \* its arguments
    loc,     \* the locals and intermediate values of the call
    ret      \* its return value, once pc = "done"

vars == <<pc, fn, args, loc, ret>>

NoLoc == [none |-> 0]

Init ==
    /\ pc = "idle"
    /\ fn = "none"
    /\ args = <<>>
    /\ loc = NoLoc
    /\ ret = 0

\* The arguments swept, on the grid (main sweeps -10..10), and the special
\* values.
SweepArgs == (-Sweep..Sweep) \cup {-MaxFin, MaxFin, -PosInf, PosInf, NaNRep}

\* The arguments given to Math_Atan2.
Atan2Args ==
    {0, 1, -1, 2, -2, One, -One, 3 * One, -3 * One, 11 * One, -11 * One,
     MaxFin, -MaxFin, PosInf, -PosInf, NaNRep}
     \cup {X_i[i] : i \in 1..7} \cup {X_i[i] - 1 : i \in 1..7}
     \cup {-X_i[i] : i \in 1..7}

\* double Math_Sin(double x)
Math_Sin(x) ==
    /\ pc = "idle"
    /\ LET x_div_pi == Mul(x, DIV_2_PI)
       IN \E f \in Floord(x_div_pi) :
            LET t == Sub(x_div_pi, f)
                r == SinStage3(t)
            IN /\ loc' = [turns |-> x_div_pi, floor |-> f, t |-> t,
                          calls |-> r.calls]
               /\ ret' = r.ret
    /\ pc' = "done"
    /\ fn' = "Math_Sin"
    /\ args' = <<x>>

\* double Math_Cos(double x)
Math_Cos(x) ==
    /\ pc = "idle"
    /\ LET x_div_pi_shifted == Add(Mul(x, DIV_2_PI), One \div 4)
       IN \E f \in Floord(x_div_pi_shifted) :
            LET t == Sub(x_div_pi_shifted, f)
                r == SinStage3(t)
            IN /\ loc' = [turns |-> x_div_pi_shifted, floor |-> f, t |-> t,
                          calls |-> r.calls]
               /\ ret' = r.ret
    /\ pc' = "done"
    /\ fn' = "Math_Cos"
    /\ args' = <<x>>

\* The locals of a call of Atan(v) on entry to the loop of AtanStage2;
\* branch is what the caller does with the value Atan returns.
AtanEntry(v, branch) ==
    [branch |-> branch, atan_arg |-> v, neg |-> Atan_neg(v),
     x |-> IF Atan_neg(v) THEN Neg(v) ELSE v,
     L |-> 0, R |-> 8, iters |-> 0, reads |-> {}]

\* double Atan(double x), up to the loop of AtanStage2 (main calls Atan).
Atan(x) ==
    /\ pc = "idle"
    /\ pc' = "AtanStage2_loop"
    /\ fn' = "Atan"
    /\ args' = <<x>>
    /\ loc' = AtanEntry(x, "atan")
    /\ ret' = 0

\* double Math_Atan2(double y, double x), up to the loop of AtanStage2 or,
\* on the axis x == 0, to its return.
Math_Atan2(y, x) ==
    /\ pc = "idle"
    /\ fn' = "Math_Atan2"
    /\ args' = <<y, x>>
    /\ LET b == Math_Atan2_branch(y, x)
       IN IF b \in {"atan", "atan+PI", "atan-PI"}
          THEN /\ pc' = "AtanStage2_loop"
               /\ loc' = AtanEntry(Div(y, x), b)
               /\ ret' = 0
          ELSE /\ pc' = "done"
               /\ loc' = [branch |-> b]
               /\ ret' = IF b = "+PI/2" THEN Div(PI, 2 * One)
                         ELSE IF b = "-PI/2" THEN Div(Neg(PI), 2 * One)
                         ELSE DOUBLE_NAN

\* One iteration of   while (R - L > 1) { ... }
AtanStage2_loop ==
    /\ pc = "AtanStage2_loop"
    /\ AtanStage2_cond(loc.L, loc.R)
    /\ loc.iters < MaxIters
    /\ LET lr == AtanStage2_step(loc.L, loc.R, loc.x)
       IN loc' = [loc EXCEPT !.L = lr[1], !.R = lr[2],
                             !.iters = @ + 1,
                             !.reads = @ \cup {(loc.L + loc.R) \div 2}]
    /\ UNCHANGED <<pc, fn, args, ret>>

\* The loop is left; AtanStage2, Atan and Math_Atan2 return.
AtanStage2_exit ==
    /\ pc = "AtanStage2_loop"
    /\ ~AtanStage2_cond(loc.L, loc.R)
    /\ LET s == AtanStage2_tail(loc.R, loc.x)
           a == IF loc.neg THEN Neg(s.ret) ELSE s.ret
       IN /\ loc' = [branch |-> loc.branch, atan_arg |-> loc.atan_arg,
                     neg |-> loc.neg, x |-> loc.x, L |-> loc.L, R |-> loc.R,
                     iters |-> loc.iters, reads |-> loc.reads,
                     core |-> s.core, reduced |-> s.reduced, t |-> s.t,
                     atan_ret |-> a]
          /\ ret' = IF loc.branch = "atan+PI" THEN Add(a, PI)
                    ELSE IF loc.branch = "atan-PI" THEN Sub(a, PI)
                    ELSE a
    /\ pc' = "done"
    /\ UNCHANGED <<fn, args>>

\* The arguments of Math_Exp: the sweep of main and, for each k, the
\* arguments whose product with LOG2E lies around the integer k.
ExpAround(k) == {Div(IToD(k), LOG2E) + d : d \in -(Sweep \div 8)..(Sweep \div 8)}
ExpArgs ==
    SweepArgs \cup ExpAround(-1022) \cup ExpAround(1023)
              \cup ExpAround(IntMin) \cup ExpAround(IntMax)

\* double Math_Exp(double x)
Math_Exp(x) ==
    /\ pc = "idle"
    /\ \E n \in Exp2_int(Mul(x, LOG2E)) :
         LET r == Exp2(Mul(x, LOG2E), n)
         IN /\ loc' = r
            /\ ret' = r.ret
    /\ pc' = "done"
    /\ fn' = "Math_Exp"
    /\ args' = <<x>>

\* double Math_Log(double x), x given by its pattern
Math_Log(p) ==
    /\ pc = "idle"
    /\ LET r == Log2(p)
       IN /\ loc' = r
          /\ ret' = Mul(r.ret, LOGE2)
    /\ pc' = "done"
    /\ fn' = "Math_Log"
    /\ args' = <<p>>

\* The call returns to the caller, which goes on to the next argument.
Return ==
    /\ pc = "done"
    /\ pc' = "idle"
    /\ fn' = "none"
    /\ args' = <<>>
    /\ loc' = NoLoc
    /\ ret' = 0

\* The caller (main, or any other driver of the five functions), between
\* two calls: one of the functions is called with an argument.  Every function
\* documents its allowed input range as "anything".
Caller ==
    /\ pc = "idle"
    /\ \/ \E x \in SweepArgs : Math_Sin(x)
       \/ \E x \in SweepArgs : Math_Cos(x)
       \/ \E x \in SweepArgs : Atan(x)
       \/ \E y \in Atan2Args, x \in Atan2Args : Math_Atan2(y, x)
       \/ \E x \in ExpArgs : Math_Exp(x)
       \/ \E p \in Patterns : Math_Log(p)

Next ==
    \/ Caller
    \/ AtanStage2_loop
    \/ AtanStage2_exit
    \/ Return

Spec == Init /\ [][Next]_vars


\* ================================================================== claims
\* The calls whose argument fits the int where the code converts it.
FitsInt(v) == IsFinite(v) /\ Trunc(v) >= IntMin /\ Trunc(v) <= IntMax

\* A call that went through Atan has returned.
AtanDone ==
    /\ pc = "done"
    /\ fn \in {"Atan", "Math_Atan2"}
    /\ loc.branch \in {"atan", "atan+PI", "atan-PI"}

\* Math_Sin or Math_Cos has returned.
SinDone == pc = "done" /\ fn \in {"Math_Sin", "Math_Cos"}

\* C1: every call of Atan makes a bounded number of steps, for NaN and the
\* infinities too: the search loop of AtanStage2 is left after exactly 3
\* comparisons of x against a breakpoint (no more than 3 iterations are ever
\* made and after the third the loop condition is false).
C1_SearchEndsAfterThree ==
    pc = "AtanStage2_loop" =>
        /\ loc.iters <= 3
        /\ (loc.iters = 3 => ~AtanStage2_cond(loc.L, loc.R))
        /\ (loc.iters < 3 => AtanStage2_cond(loc.L, loc.R))

\* C2: for finite (y, x) Math_Atan2 returns Atan(y/x) when x > 0,
\* Atan(y/x) + PI when x < 0 and y >= 0, Atan(y/x) - PI when x < 0 and
\* y < 0, PI/2 when x == 0 and y > 0, -PI/2 when x == 0 and y < 0, and NaN
\* when both are zero; NaN is returned for (0, 0) only.
C2_Atan2Quadrants ==
    (fn = "Math_Atan2" /\ pc = "done"
        /\ IsFinite(args[1]) /\ IsFinite(args[2])) =>
        LET y == args[1]
            x == args[2]
        IN /\ x > 0 => (loc.atan_arg = Div(y, x) /\ ret = loc.atan_ret)
           /\ (x < 0 /\ y >= 0) =>
                (loc.atan_arg = Div(y, x) /\ ret = Add(loc.atan_ret, PI))
           /\ (x < 0 /\ y < 0) =>
                (loc.atan_arg = Div(y, x) /\ ret = Sub(loc.atan_ret, PI))
           /\ (x = 0 /\ y > 0) => ret = Div(PI, 2 * One)
           /\ (x = 0 /\ y < 0) => ret = Neg(Div(PI, 2 * One))
           /\ IsNaN(ret) <=> (x = 0 /\ y = 0)

\* Math_Atan2(0, -1) has returned Atan(-0/1) + PI = PI: the boundary y == 0
\* of the half-plane x < 0.
C2_Witness ==
    /\ fn = "Math_Atan2" /\ pc = "done"
    /\ args = <<0, -One>>
    /\ loc.atan_arg = 0
    /\ ret = PI

\* C3: when the truncation of x fits the int, Exp2 with integer exponent n
\* returns 0.0 when n < -1022 and +Infinity when n > 1023; otherwise the
\* pattern it builds has sign 0, exponent field n + 1023 within 1..2046 and
\* mantissa 0 (the normal double 2^n).
C3_Exp2Pattern ==
    (fn = "Math_Exp" /\ pc = "done" /\ FitsInt(loc.x)) =>
        LET n == loc.x_int
        IN /\ n < -1022 => ret = 0
           /\ n > 1023 => ret = MakeBits(0, 2047, 0)
           /\ (n >= -1022 /\ n <= 1023) =>
                /\ SignOf(loc.doi) = 0
                /\ ExpOf(loc.doi) = n + 1023
                /\ ExpOf(loc.doi) >= 1 /\ ExpOf(loc.doi) <= 2046
                /\ MantOf(loc.doi) = 0

\* Exp2 has built the smallest normal pattern, for n = -1022.
C3_Witness ==
    /\ fn = "Math_Exp" /\ pc = "done" /\ FitsInt(loc.x)
    /\ loc.x_int = -1022
    /\ loc.edge = "none"
    /\ loc.doi = MakeBits(0, 1, 0)

\* C4: for every finite x within the range of the int, Floord(x) is the
\* mathematical floor of x: the largest integer n <= x, 0 <= x - n < 1.
C4_FloordIsFloor ==
    (SinDone /\ FitsInt(loc.turns)) =>
        /\ loc.floor = (loc.turns \div One) * One
        /\ 0 <= loc.turns - loc.floor
        /\ loc.turns - loc.floor < One

\* C5: for every positive finite normal x, the value Log2 passes to
\* Log2Stage1 lies in [0.5, 1).
C5_CoreArgInHalfToOne ==
    (fn = "Math_Log" /\ pc = "done"
        /\ SignOf(args[1]) = 0
        /\ ExpOf(args[1]) >= 1 /\ ExpOf(args[1]) <= 2046) =>
        /\ One \div 2 <= loc.core
        /\ loc.core < One

\* C6: for every non-negative finite x for which the search yields R > 1
\* (arbitrarily large x in the last partition included), the residual t
\* lies in [-tan(pi/32), tan(pi/32)] and the argument of
\* AtanStage1 in [0, tan(pi/32)]  (tan(pi/32) is the breakpoint X_i[1]).
C6_ResidualInCoreRange ==
    (AtanDone /\ Ge(loc.x, 0) /\ IsFinite(loc.x) /\ loc.reduced) =>
        /\ Le(Neg(X_i[1]), loc.t) /\ Le(loc.t, X_i[1])
        /\ Le(0, loc.core) /\ Le(loc.core, X_i[1])

\* The search invariant of C7, for a non-negative x: 0 <= L < R <= 8 in
\* every iteration and only the breakpoints 1..7 are read.
C7_InLoop ==
    /\ 0 <= loc.L /\ loc.L < loc.R /\ loc.R <= 8
    /\ loc.reads \subseteq 1..7

\* C7 as stated: for every non-negative x in [0, infinity] the search keeps
\* 0 <= L < R <= 8, reads only the breakpoints 1..7 and ends with
\* R = L + 1 and X_i[R-1] <= x < X_i[R]; R <= 1 exactly when x < X_i[1].
C7_SearchAsStated ==
    /\ (pc = "AtanStage2_loop" /\ Ge(loc.x, 0)) => C7_InLoop
    /\ (AtanDone /\ Ge(loc.x, 0)) =>
         /\ C7_InLoop
         /\ loc.R = loc.L + 1
         /\ Le(X_i[loc.R - 1], loc.x) /\ Lt(loc.x, X_i[loc.R])
         /\ (loc.R <= 1) <=> Lt(loc.x, X_i[1])

\* C7 amended: as stated, except that x = +Infinity ends in the last
\* partition, R = 8, with x equal to the sentinel X_i[8] instead of below it.
C7_Search ==
    /\ (pc = "AtanStage2_loop" /\ Ge(loc.x, 0)) => C7_InLoop
    /\ (AtanDone /\ Ge(loc.x, 0)) =>
         /\ C7_InLoop
         /\ loc.R = loc.L + 1
         /\ Le(X_i[loc.R - 1], loc.x)
         /\ \/ Lt(loc.x, X_i[loc.R])
            \/ (loc.x = INF /\ loc.R = 8 /\ X_i[loc.R] = INF)
         /\ (loc.R <= 1) <=> Lt(loc.x, X_i[1])

\* The search has ended for an x equal to the breakpoint X_i[3]: after
\* reading the breakpoints 4, 2 and 3 it ends with L = 3, R = 4.
C7_Witness ==
    /\ AtanDone
    /\ loc.x = X_i[3]
    /\ loc.L = 3 /\ loc.R = 4
    /\ loc.reads = {2, 3, 4}
    /\ loc.iters = 3

\* C8: when the truncation of x fits the int and Exp2 takes neither edge
\* branch, n is x rounded toward negative infinity and the residual
\* x - n - 0.5 lies in [-0.5, 0.5), negative exact integers x included.
C8_FloorSplit ==
    (fn = "Math_Exp" /\ pc = "done" /\ FitsInt(loc.x) /\ loc.edge = "none") =>
        /\ loc.x_int = loc.x \div One
        /\ -(One \div 2) <= loc.residual
        /\ loc.residual < One \div 2

\* C9: for every finite x whose turns value lies within the range of the
\* int, the value Math_Sin and Math_Cos pass to SinStage3 lies in [0, 1).
C9_FoldedIntoUnitTurn ==
    (SinDone /\ IsFinite(args[1]) /\ FitsInt(loc.turns)) =>
        /\ 0 <= loc.t
        /\ loc.t < One

\* C10: for every t in [0, 1], SinStage3 calls SinStage2 exactly once, with
\* t, 0.5 - t, t - 0.5 or 1 - t according to the quarter t falls in, an
\* argument within [0, 0.25], and negates the result exactly when t >= 0.5.
C10_OctantFold ==
    (SinDone /\ Ge(loc.t, 0) /\ Le(loc.t, One)) =>
        LET t == loc.t
            a == IF t < One \div 4 THEN t
                 ELSE IF t < One \div 2 THEN One \div 2 - t
                 ELSE IF t < (3 * One) \div 4 THEN t - One \div 2
                 ELSE One - t
        IN /\ loc.calls = <<a>>
           /\ 0 <= a /\ a <= One \div 4
           /\ ret = IF t >= One \div 2 THEN Neg(SinStage2(a)) ELSE SinStage2(a)

\* SinStage3 has folded t = 0.75, the start of the last quarter, to
\* 1 - t = 0.25 and negated the result.
C10_Witness ==
    /\ SinDone
    /\ loc.t = (3 * One) \div 4
    /\ loc.calls = <<One \div 4>>
    /\ ret = Neg(SinStage2(One \div 4))
    /\ ret < 0

=============================================================================
